---- MODULE Spec2Model ----
(***************************************************************************)
(* HuggingFaceEmbeddings (src/src/nlp_models.py): construction, the        *)
(* text -> vector operation get_embedding, and the CSV pipeline            *)
(* get_embedding_df (read_csv, column lookup, per-row apply, makedirs,     *)
(* to_csv), over an explicit file system.                                  *)
(*                                                                         *)
(* A text, and a CSV cell, is a sequence of words (strings); the empty     *)
(* cell is << >>.  The tokenizer maps one word to one token.               *)
(***************************************************************************)
EXTENDS Integers, Sequences, FiniteSets, TLC

VARIABLES
    \* ---- the object (self.*) and its runtime
    obj,            \* "new" | "ready" | "ctor_failed"
    opts,           \* the save_path and device arguments __init__ was given
    cudaAvailable,  \* torch.cuda.is_available()
    model_name,     \* self.model_name
    save_path,      \* self.save_path
    device,         \* self.device
    modelDevice,    \* device the encoder's weights are on ("none" before load)
    \* ---- the last get_embedding call
    inputsDevice,   \* device the tokenizer output was moved to ("none": no call yet)
    encoderTokens,  \* number of tokens handed to self.model(**inputs)
    embedding,      \* the vector returned (<< >>: none)
    embedText,      \* the text of the last standalone get_embedding call
    \* ---- the file system
    inputFile,      \* content at self.path
    dirState,       \* directory name -> "absent" | "dir" | "file"
    files,          \* <<directory, file>> -> content
    \* ---- the running get_embedding_df call
    pc,             \* "idle","read_csv","getitem","apply","makedirs","to_csv","done","failed"
    args,           \* [column, directory, file]
    df,             \* the DataFrame in memory
    row,            \* row the apply loop is at
    result,         \* lists returned by the lambda so far
    err,            \* exception that ended the call ("" : none)
    calls,          \* number of get_embedding_df calls started
    \* ---- history of the running call
    log,            \* the steps the call has entered, in order
    files0,         \* files when the call started
    dirState0,      \* dirState when the call started
    prev            \* how the previous call ended: [ok, args, files, dirState]

vars == <<obj, opts, cudaAvailable, model_name, save_path, device, modelDevice,
          inputsDevice, encoderTokens, embedding, embedText,
          inputFile, dirState, files,
          pc, args, df, row, result, err, calls, log, files0, dirState0, prev>>

objVars  == <<obj, opts, model_name, save_path, device, modelDevice>>
callVars == <<inputsDevice, encoderTokens, embedding>>
fsVars   == <<inputFile, dirState, files>>
dfVars   == <<pc, args, df, row, result, err, calls, log, files0, dirState0, prev>>

----------------------------------------------------------------------------
(* Bounds *)

MaxRows  == 2     \* rows of an input table
MaxCalls == 2     \* get_embedding_df calls in one run
LongText == 600   \* words of the longest text embedded

(* The limit the class docstring states (Notes, line 52). *)
DocMaxTokens == 512

----------------------------------------------------------------------------
(* Small helpers *)

Min(a, b) == IF a < b THEN a ELSE b

RECURSIVE SumRange(_, _, _)
SumRange(s, lo, hi) ==
    IF lo > hi THEN 0
    ELSE IF lo = hi THEN s[lo]
    ELSE SumRange(s, lo, (lo + hi) \div 2) + SumRange(s, (lo + hi) \div 2 + 1, hi)

SumSeq(s) == SumRange(s, 1, Len(s))

Range(s) == {s[k] : k \in 1..Len(s)}

Prefix(s, k) == SubSeq(s, 1, k)

IsPrefix(s, t) == Len(s) <= Len(t) /\ Prefix(t, Len(s)) = s

----------------------------------------------------------------------------
(* The pretrained models: AutoTokenizer / AutoModel.from_pretrained          *)

DefaultModel == "sentence-transformers/all-MiniLM-L6-v2"
LongModel    == "allenai/longformer-base-4096"
ModelNames   == {DefaultModel, LongModel}

(* tokenizer.model_max_length of the loaded tokenizer: what truncation=True  *)
(* truncates to when the call passes no max_length.                          *)
ModelMaxLength(m) == IF m = DefaultModel THEN 512 ELSE 4096

(* config.hidden_size of the loaded encoder, scaled down (384 and 768 in the *)
(* published configurations): only its being fixed per model matters here.   *)
HiddenSize(m) == IF m = DefaultModel THEN 3 ELSE 4

Vocab == <<"[CLS]", "[SEP]", "[UNK]", "red", "shoes", "blue", "hat", "NA", "07", "7", "w">>

TokenId(w) == IF w \in Range(Vocab) THEN CHOOSE k \in 1..Len(Vocab) : Vocab[k] = w
              ELSE 3

(* self.tokenizer(text, padding=True, truncation=True): [CLS] words [SEP],   *)
(* the words cut so that the whole fits model_max_length; a single sequence  *)
(* gets no padding.                                                          *)
Tokenize(m, text) ==
    <<"[CLS]">> \o Prefix(text, Min(Len(text), ModelMaxLength(m) - 2)) \o <<"[SEP]">>

(* outputs.last_hidden_state[0][t][i] of a stand-in encoder. *)
HiddenState(tokens, t, i) == (TokenId(tokens[t]) * i + t) % 10

(* .mean(dim=1)...[0]: the mean over the token axis, one entry per hidden    *)
(* dimension.                                                                *)
MeanPool(m, tokens) ==
    [i \in 1..HiddenSize(m) |->
        SumSeq([t \in 1..Len(tokens) |-> HiddenState(tokens, t, i)]) \div Len(tokens)]

(* get_embedding(text) on a str. *)
GetEmbedding(m, text) == MeanPool(m, Tokenize(m, text))

----------------------------------------------------------------------------
(* __init__ *)

NoneOpt == "None"

SavePathOptions == {NoneOpt, "", "out"}
DeviceOptions   == {NoneOpt, "cpu", "cuda"}

(* self.save_path = save_path or 'Models' *)
SavePathOf(opt) == IF opt = NoneOpt \/ opt = "" THEN "Models" ELSE opt

SelectDeviceAlwaysAuto(opt, avail) == IF avail THEN "cuda" ELSE "cpu"

(* lines 72-76 *)
SelectDevice(opt, avail) ==
    IF opt = NoneOpt THEN (IF avail THEN "cuda" ELSE "cpu") ELSE opt

(* self.model.to(self.device) raises when the device is cuda and there is none. *)
CanPlace(dev, avail) == dev = "cpu" \/ avail

Construct ==
    /\ obj = "new"
    /\ \E m \in ModelNames, sp \in SavePathOptions, d \in DeviceOptions :
         /\ opts' = [save_path |-> sp, device |-> d]
         /\ model_name' = m
         /\ save_path' = SavePathOf(sp)
         /\ device' = SelectDevice(d, cudaAvailable)
         /\ IF CanPlace(SelectDevice(d, cudaAvailable), cudaAvailable)
              THEN /\ modelDevice' = SelectDevice(d, cudaAvailable)
                   /\ obj' = "ready"
              ELSE /\ modelDevice' = "cpu"
                   /\ obj' = "ctor_failed"
    /\ UNCHANGED <<cudaAvailable, callVars, embedText, fsVars, dfVars>>

----------------------------------------------------------------------------
(* get_embedding called directly *)

Words(n) == [k \in 1..n |-> "w"]

Texts == {<< >>, <<"red", "shoes">>, <<"blue", "hat">>, Words(DocMaxTokens - 2),
          Words(DocMaxTokens - 1), Words(LongText)}

GetEmbeddingCall ==
    /\ obj = "ready"
    /\ pc = "idle"
    /\ \E text \in Texts :
         /\ embedText' = text
         /\ inputsDevice' = device
         /\ encoderTokens' = Len(Tokenize(model_name, text))
         /\ embedding' = GetEmbedding(model_name, text)
    /\ UNCHANGED <<objVars, cudaAvailable, fsVars, dfVars>>

(* tokenization or the forward pass raises (out of memory, ...): the inputs  *)
(* may or may not have reached the device; nothing is returned.              *)
GetEmbeddingRaise ==
    /\ obj = "ready"
    /\ pc = "idle"
    /\ \E text \in Texts, moved \in BOOLEAN :
         /\ embedText' = text
         /\ inputsDevice' = IF moved THEN device ELSE inputsDevice
         /\ encoderTokens' = IF moved THEN Len(Tokenize(model_name, text)) ELSE 0
         /\ embedding' = << >>
    /\ UNCHANGED <<objVars, cudaAvailable, fsVars, dfVars>>

----------------------------------------------------------------------------
(* Files and tables.  A file's content is a record: kind "none" (no file),  *)
(* "garbage" (a file pandas cannot parse), "table" (a header line and the   *)
(* rows, each cell a text) or "partial" (what an interrupted write left).   *)

NoFile  == [kind |-> "none", header |-> << >>, rows |-> << >>]
Garbage == [kind |-> "garbage", header |-> << >>, rows |-> << >>]
Table(h, rs)   == [kind |-> "table", header |-> h, rows |-> rs]
Partial(h, rs) == [kind |-> "partial", header |-> h, rows |-> rs]

DirNames   == {"Models", "out"}
FileNames  == {"emb.csv"}
Paths      == DirNames \X FileNames
ColumnArgs == {"description", "price"}

Headers    == {<<"description">>, <<"price", "description">>,
               <<"description", "embeddings">>}
(* what a cell of the text column, and of any other column, may hold *)
TextCells  == {<<"red", "shoes">>, <<"NA">>, <<"07">>}
OtherCells == {<<"NA">>, <<"07">>}
CellsOf(name) == IF name = "description" THEN TextCells ELSE OtherCells

RowsOf(h) == {r \in [1..Len(h) -> TextCells \cup OtherCells] :
                \A j \in 1..Len(h) : r[j] \in CellsOf(h[j])}

SeqsUpTo(S, n) == UNION {[1..k -> S] : k \in 0..n}

InputTables ==
    UNION {{Table(h, rs) : rs \in SeqsUpTo(RowsOf(h), MaxRows)} :
           h \in Headers}

(* os.path.join(directory, file), for a directory name and a plain file name *)
PathJoin(d, f) == <<d, f>>

----------------------------------------------------------------------------
(* pandas values, read_csv and to_csv with their default arguments          *)

StrVal(c)   == [t |-> "str",   s |-> c,     n |-> << >>]
NaN         == [t |-> "nan",   s |-> << >>, n |-> << >>]
IntVal(k)   == [t |-> "int",   s |-> << >>, n |-> <<k>>]
FloatVal(k) == [t |-> "float", s |-> << >>, n |-> <<k>>]
ListVal(v)  == [t |-> "list",  s |-> << >>, n |-> v]

DigitStr == <<"0", "1", "2", "3", "4", "5", "6", "7", "8", "9">>
FloatStr == <<"0.0", "1.0", "2.0", "3.0", "4.0", "5.0", "6.0", "7.0", "8.0", "9.0">>

(* default na_values: the empty field and "NA" (among others) *)
IsNA(c) == c = << >> \/ c = <<"NA">>

(* a field the C parser converts to an integer, and its value *)
IsInt(c) == Len(c) = 1 /\ c[1] \in {"7", "07"}
IntOf(c) == 7

ColumnCells(rs, j) == [i \in 1..Len(rs) |-> rs[i][j]]

(* dtype inference of one column *)
InferDtype(cells) ==
    IF Len(cells) = 0 THEN "object"
    ELSE IF \A i \in 1..Len(cells) : IsNA(cells[i]) \/ IsInt(cells[i])
         THEN (IF \E i \in 1..Len(cells) : IsNA(cells[i]) THEN "float64" ELSE "int64")
         ELSE "object"

ParseCell(dtype, c) ==
    IF IsNA(c) THEN NaN
    ELSE IF dtype = "int64" THEN IntVal(IntOf(c))
    ELSE IF dtype = "float64" THEN FloatVal(IntOf(c))
    ELSE StrVal(c)

(* pd.read_csv(self.path) of a parsable file *)
ReadCsv(content) ==
    [columns |-> content.header,
     data |-> [i \in 1..Len(content.rows) |->
                 [j \in 1..Len(content.header) |->
                    ParseCell(InferDtype(ColumnCells(content.rows, j)),
                              content.rows[i][j])]]]

EmptyDf == [columns |-> << >>, data |-> << >>]

HasColumn(d, c) == \E j \in 1..Len(d.columns) : d.columns[j] = c
ColIndex(d, c)  == CHOOSE j \in 1..Len(d.columns) : d.columns[j] = c

(* df.insert(0, name, vals) for a new column *)
SetColumnFront(d, name, vals) ==
    IF \E j \in 1..Len(d.columns) : d.columns[j] = name
    THEN [d EXCEPT !.data = [i \in 1..Len(d.data) |->
                               [j \in 1..Len(d.columns) |->
                                  IF d.columns[j] = name THEN vals[i] ELSE d.data[i][j]]]]
    ELSE [columns |-> <<name>> \o d.columns,
          data |-> [i \in 1..Len(d.data) |-> <<vals[i]>> \o d.data[i]]]

(* df[name] = vals: an existing column of that name is assigned in place,   *)
(* otherwise the column is added last.                                      *)
SetColumn(d, name, vals) ==
    IF HasColumn(d, name)
    THEN [d EXCEPT !.data = [i \in 1..Len(d.data) |->
                               [j \in 1..Len(d.columns) |->
                                  IF d.columns[j] = name THEN vals[i] ELSE d.data[i][j]]]]
    ELSE [columns |-> Append(d.columns, name),
          data |-> [i \in 1..Len(d.data) |-> Append(d.data[i], vals[i])]]

(* str(list) of a vector *)
Serialize(vec) == [k \in 1..Len(vec) |-> DigitStr[vec[k] + 1]]

FormatCell(v) ==
    IF v.t = "str" THEN v.s
    ELSE IF v.t = "nan" THEN << >>
    ELSE IF v.t = "int" THEN <<DigitStr[v.n[1] + 1]>>
    ELSE IF v.t = "float" THEN <<FloatStr[v.n[1] + 1]>>
    ELSE Serialize(v.n)

FormatRows(d) ==
    [i \in 1..Len(d.data) |-> [j \in 1..Len(d.columns) |-> FormatCell(d.data[i][j])]]

(* df.to_csv(path, index=False) *)
ToCsv(d) == Table(d.columns, FormatRows(d))

----------------------------------------------------------------------------
(* get_embedding_df(column, directory, file)                                *)

NoArgs == [column |-> "", directory |-> "", file |-> ""]

Ev(op, r) == [op |-> op, row |-> r]

OutPath == PathJoin(args.directory, args.file)

Fail(e) ==
    /\ pc' = "failed"
    /\ err' = e

Start ==
    /\ obj = "ready"
    /\ pc \in {"idle", "done", "failed"}
    /\ calls < MaxCalls
    /\ \E c \in ColumnArgs, d \in DirNames, f \in FileNames :
         args' = [column |-> c, directory |-> d, file |-> f]
    /\ prev' = [ok |-> pc = "done", args |-> args, files |-> files, dirState |-> dirState]
    /\ pc' = "read_csv"
    /\ calls' = calls + 1
    /\ df' = EmptyDf
    /\ row' = 0
    /\ result' = << >>
    /\ err' = ""
    /\ log' = << >>
    /\ files0' = files
    /\ dirState0' = dirState
    /\ UNCHANGED <<objVars, cudaAvailable, callVars, embedText, fsVars>>

(* a read that swallows the missing file and goes on with an empty frame *)
ReadCsvStepLenient ==
    /\ pc = "read_csv"
    /\ log' = Append(log, Ev("read_csv", 0))
    /\ IF inputFile.kind = "garbage" THEN Fail("EmptyDataError") /\ df' = df
       ELSE /\ df' = IF inputFile.kind = "none" THEN EmptyDf ELSE ReadCsv(inputFile)
            /\ pc' = "getitem"
            /\ err' = err
    /\ UNCHANGED <<objVars, cudaAvailable, callVars, embedText, fsVars,
                   args, row, result, calls, files0, dirState0, prev>>

(* line 108: df = pd.read_csv(self.path) *)
ReadCsvStep ==
    /\ pc = "read_csv"
    /\ log' = Append(log, Ev("read_csv", 0))
    /\ IF inputFile.kind = "none" THEN Fail("FileNotFoundError") /\ df' = df
       ELSE IF inputFile.kind # "table" THEN Fail("EmptyDataError") /\ df' = df
       ELSE /\ df' = ReadCsv(inputFile)
            /\ pc' = "getitem"
            /\ err' = err
    /\ UNCHANGED <<objVars, cudaAvailable, callVars, embedText, fsVars,
                   args, row, result, calls, files0, dirState0, prev>>

(* a lookup that skips the embedding of an absent column and goes on to write *)
GetItemSkipAbsent ==
    /\ pc = "getitem"
    /\ log' = Append(log, Ev("getitem", 0))
    /\ IF HasColumn(df, args.column)
         THEN pc' = "apply" /\ row' = 1 /\ err' = err
         ELSE pc' = "makedirs" /\ row' = row /\ err' = err
    /\ UNCHANGED <<objVars, cudaAvailable, callVars, embedText, fsVars,
                   args, df, result, calls, files0, dirState0, prev>>

(* a lookup after which the output directory is created before any row is embedded *)
GetItemMakedirsFirst ==
    /\ pc = "getitem"
    /\ log' = Append(log, Ev("getitem", 0))
    /\ IF HasColumn(df, args.column)
         THEN /\ pc' = "apply" /\ row' = 1 /\ err' = err
              /\ dirState' = [dirState EXCEPT ![args.directory] =
                                 IF @ = "absent" THEN "dir" ELSE @]
         ELSE Fail("KeyError") /\ row' = row /\ dirState' = dirState
    /\ UNCHANGED <<objVars, cudaAvailable, callVars, embedText, inputFile, files,
                   args, df, result, calls, files0, dirState0, prev>>

(* line 109: df[column] *)
GetItem ==
    /\ pc = "getitem"
    /\ log' = Append(log, Ev("getitem", 0))
    /\ IF HasColumn(df, args.column)
         THEN pc' = "apply" /\ row' = 1 /\ err' = err
         ELSE Fail("KeyError") /\ row' = row
    /\ UNCHANGED <<objVars, cudaAvailable, callVars, embedText, fsVars,
                   args, df, result, calls, files0, dirState0, prev>>

Current == df.data[row][ColIndex(df, args.column)]

(* line 109: one call of the lambda, self.get_embedding(x).tolist() *)
ApplyRow ==
    /\ pc = "apply"
    /\ row <= Len(df.data)
    /\ log' = Append(log, Ev("get_embedding", row))
    /\ IF Current.t = "str"
         THEN /\ inputsDevice' = device
              /\ encoderTokens' = Len(Tokenize(model_name, Current.s))
              /\ embedding' = GetEmbedding(model_name, Current.s)
              /\ result' = Append(result, ListVal(GetEmbedding(model_name, Current.s)))
              /\ row' = row + 1
              /\ UNCHANGED <<pc, err>>
         ELSE \* the tokenizer rejects a value that is not a str
              /\ Fail("ValueError")
              /\ UNCHANGED <<callVars, result, row>>
    /\ UNCHANGED <<objVars, cudaAvailable, embedText, fsVars,
                   args, df, calls, files0, dirState0, prev>>

(* line 109: get_embedding raises on a str (forward pass, out of memory) *)
ApplyRowRaise ==
    /\ pc = "apply"
    /\ row <= Len(df.data)
    /\ Current.t = "str"
    /\ log' = Append(log, Ev("get_embedding", row))
    /\ Fail("RuntimeError")
    /\ inputsDevice' = device
    /\ encoderTokens' = Len(Tokenize(model_name, Current.s))
    /\ embedding' = << >>
    /\ UNCHANGED <<objVars, cudaAvailable, embedText, fsVars,
                   args, df, row, result, calls, files0, dirState0, prev>>

(* line 109: df["embeddings"] = <the Series apply returned> *)
SetItem ==
    /\ pc = "apply"
    /\ row > Len(df.data)
    /\ log' = Append(log, Ev("setitem", 0))
    /\ df' = SetColumn(df, "embeddings", result)
    /\ pc' = "makedirs"
    /\ UNCHANGED <<objVars, cudaAvailable, callVars, embedText, fsVars,
                   args, row, result, err, calls, files0, dirState0, prev>>

(* os.makedirs(directory) without exist_ok *)
MakedirsNoExistOk ==
    /\ pc = "makedirs"
    /\ log' = Append(log, Ev("makedirs", 0))
    /\ IF dirState[args.directory] # "absent"
         THEN Fail("FileExistsError") /\ dirState' = dirState
         ELSE /\ dirState' = [dirState EXCEPT ![args.directory] = "dir"]
              /\ pc' = "to_csv"
              /\ err' = err
    /\ UNCHANGED <<objVars, cudaAvailable, callVars, embedText, inputFile, files,
                   args, df, row, result, calls, files0, dirState0, prev>>

(* line 111: os.makedirs(directory, exist_ok=True) *)
Makedirs ==
    /\ pc = "makedirs"
    /\ log' = Append(log, Ev("makedirs", 0))
    /\ IF dirState[args.directory] = "file"
         THEN Fail("FileExistsError") /\ dirState' = dirState
         ELSE /\ dirState' = [dirState EXCEPT ![args.directory] = "dir"]
              /\ pc' = "to_csv"
              /\ err' = err
    /\ UNCHANGED <<objVars, cudaAvailable, callVars, embedText, inputFile, files,
                   args, df, row, result, calls, files0, dirState0, prev>>

(* line 111: the directory is absent and cannot be created *)
MakedirsRaise ==
    /\ pc = "makedirs"
    /\ dirState[args.directory] = "absent"
    /\ log' = Append(log, Ev("makedirs", 0))
    /\ Fail("PermissionError")
    /\ UNCHANGED <<objVars, cudaAvailable, callVars, embedText, fsVars,
                   args, df, row, result, calls, files0, dirState0, prev>>

(* line 112: df.to_csv(os.path.join(directory, file), index=False) *)
ToCsvStep ==
    /\ pc = "to_csv"
    /\ log' = Append(log, Ev("to_csv", 0))
    /\ files' = [files EXCEPT ![OutPath] = ToCsv(df)]
    /\ pc' = "done"
    /\ UNCHANGED <<objVars, cudaAvailable, callVars, embedText, inputFile, dirState,
                   args, df, row, result, err, calls, files0, dirState0, prev>>

(* line 112: to_csv raises.  Either the open failed and the file is as it   *)
(* was, or the file was opened for writing (emptied) and the write stopped  *)
(* after some of the rows.                                                  *)
ToCsvRaise ==
    /\ pc = "to_csv"
    /\ log' = Append(log, Ev("to_csv", 0))
    /\ Fail("OSError")
    /\ \/ files' = files
       \/ \E k \in 0..Len(df.data) :
            /\ k < Len(df.data) \/ k = 0
            /\ files' = [files EXCEPT ![OutPath] =
                           Partial(df.columns, Prefix(FormatRows(df), k))]
    /\ UNCHANGED <<objVars, cudaAvailable, callVars, embedText, inputFile, dirState,
                   args, df, row, result, calls, files0, dirState0, prev>>

----------------------------------------------------------------------------
(* Specifications *)

(* The pipeline on a constructed object (default model, device left to     *)
(* auto on a machine without an accelerator).                               *)
Init ==
    /\ obj = "ready"
    /\ cudaAvailable = FALSE
    /\ model_name = DefaultModel
    /\ \E sp \in {NoneOpt, "out"} :
         /\ opts = [save_path |-> sp, device |-> NoneOpt]
         /\ save_path = SavePathOf(sp)
    /\ device = SelectDevice(NoneOpt, FALSE)
    /\ modelDevice = SelectDevice(NoneOpt, FALSE)
    /\ inputsDevice = "none"
    /\ encoderTokens = 0
    /\ embedding = << >>
    /\ embedText = << >>
    /\ inputFile \in {NoFile, Garbage} \cup InputTables
    /\ \E blocked \in {{}, {"out"}} :
         /\ dirState = [d \in DirNames |-> IF d \in blocked THEN "file" ELSE "absent"]
    /\ files = [p \in Paths |-> NoFile]
    /\ pc = "idle"
    /\ args = NoArgs
    /\ df = EmptyDf
    /\ row = 0
    /\ result = << >>
    /\ err = ""
    /\ calls = 0
    /\ log = << >>
    /\ files0 = files
    /\ dirState0 = dirState
    /\ prev = [ok |-> FALSE, args |-> NoArgs, files |-> files, dirState |-> dirState]

Next ==
    \/ Start
    \/ ReadCsvStep
    \/ GetItem
    \/ ApplyRow
    \/ ApplyRowRaise
    \/ SetItem
    \/ Makedirs
    \/ MakedirsRaise
    \/ ToCsvStep
    \/ ToCsvRaise

Spec == Init /\ [][Next]_vars

(* Construction and direct get_embedding calls. *)
InitObj ==
    /\ obj = "new"
    /\ cudaAvailable \in BOOLEAN
    /\ opts = [save_path |-> NoneOpt, device |-> NoneOpt]
    /\ model_name = ""
    /\ save_path = ""
    /\ device = "none"
    /\ modelDevice = "none"
    /\ inputsDevice = "none"
    /\ encoderTokens = 0
    /\ embedding = << >>
    /\ embedText = << >>
    /\ inputFile = NoFile
    /\ dirState = [d \in DirNames |-> "absent"]
    /\ files = [p \in Paths |-> NoFile]
    /\ pc = "idle"
    /\ args = NoArgs
    /\ df = EmptyDf
    /\ row = 0
    /\ result = << >>
    /\ err = ""
    /\ calls = 0
    /\ log = << >>
    /\ files0 = files
    /\ dirState0 = dirState
    /\ prev = [ok |-> FALSE, args |-> NoArgs, files |-> files, dirState |-> dirState]

NextObj ==
    \/ Construct
    \/ GetEmbeddingCall
    \/ GetEmbeddingRaise

SpecObj == InitObj /\ [][NextObj]_vars

----------------------------------------------------------------------------
(* Properties *)

Written  == files[OutPath]
NRows    == IF inputFile.kind = "table" THEN Len(inputFile.rows) ELSE 0
InHeader == Range(inputFile.header)
InIndex  == CHOOSE j \in 1..Len(inputFile.header) : inputFile.header[j] = args.column
EmbIndex == CHOOSE j \in 1..Len(Written.header) : Written.header[j] = "embeddings"
LastOp   == IF log = << >> THEN "" ELSE log[Len(log)].op
LastRow  == IF log = << >> THEN 0 ELSE log[Len(log)].row
Embedded == {k \in 1..Len(log) : log[k].op = "get_embedding"}

(* the steps of one complete call over n rows, in order *)
Canon(n) ==
    <<Ev("read_csv", 0), Ev("getitem", 0)>>
      \o [k \in 1..n |-> Ev("get_embedding", k)]
      \o <<Ev("setitem", 0), Ev("makedirs", 0), Ev("to_csv", 0)>>

C2_RowsCarried ==
    pc = "done" =>
        /\ Len(Written.rows) = Len(inputFile.rows)
        /\ \A i \in 1..Len(inputFile.rows) :
             /\ \A j \in 1..Len(inputFile.header) :
                  inputFile.header[j] # "embeddings" =>
                      Written.rows[i][j] = inputFile.rows[i][j]
             /\ Written.rows[i][EmbIndex] =
                  Serialize(GetEmbedding(model_name, inputFile.rows[i][InIndex]))

(* C3: after a failed call the file at directory/file is absent or holds    *)
(* what it held when the call started.                                      *)
C3_NoPartialOutput ==
    pc = "failed" => (Written.kind = "none" \/ Written = files0[OutPath])

(* C4: a call naming a column the (readable) input table does not have      *)
(* never gets past the lookup, ends with KeyError (ColumnNotFoundError),    *)
(* and leaves every file and directory as it found them.                    *)
C4_AbsentColumnFails ==
    (pc # "idle" /\ inputFile.kind = "table" /\ args.column \notin InHeader) =>
        /\ pc \in {"read_csv", "getitem", "failed"}
        /\ pc = "failed" => err = "KeyError"
        /\ files = files0
        /\ dirState = dirState0
        /\ Embedded = {}

C4_Witness ==
    /\ pc = "failed"
    /\ err = "KeyError"
    /\ inputFile.kind = "table"
    /\ args.column \notin InHeader
    /\ Written.kind = "table"

(* C5: a call on an object whose input path does not exist never gets past  *)
(* the read, ends with FileNotFoundError (TableReadError), embeds nothing   *)
(* and leaves every file and directory as it found them.                    *)
C5_MissingInputFails ==
    (pc # "idle" /\ inputFile.kind = "none") =>
        /\ pc \in {"read_csv", "failed"}
        /\ pc = "failed" => err = "FileNotFoundError"
        /\ files = files0
        /\ dirState = dirState0
        /\ Embedded = {}
        /\ inputsDevice = "none"

C5_Witness ==
    /\ pc = "failed"
    /\ err = "FileNotFoundError"
    /\ inputFile.kind = "none"
    /\ calls >= 2

(* what a complete call writes, from the input file and the arguments alone *)
ExpectedTable ==
    ToCsv(SetColumn(ReadCsv(inputFile), "embeddings",
                    [i \in 1..Len(inputFile.rows) |->
                       ListVal(GetEmbedding(model_name, inputFile.rows[i][InIndex]))]))

(* C6: a successful call leaves the directory existing and the complete new *)
(* table at directory/file whatever was there before, touching no other     *)
(* path; makedirs never fails on a directory that exists; and a successful  *)
(* call that follows a successful call with the same arguments leaves the   *)
(* files and directories as that call left them.                            *)
C6_WriteAndRerun ==
    /\ pc = "done" =>
         /\ dirState[args.directory] = "dir"
         /\ Written = ExpectedTable
         /\ \A p \in Paths \ {OutPath} : files[p] = files0[p]
    /\ (pc = "failed" /\ LastOp = "makedirs") => dirState0[args.directory] # "dir"
    /\ (pc \in {"to_csv", "done"} /\ dirState0[args.directory] = "absent") =>
         dirState[args.directory] = "dir"
    /\ (pc = "done" /\ prev.ok /\ prev.args = args) =>
         (files = prev.files /\ dirState = prev.dirState)

C6_Witness ==
    /\ pc = "done"
    /\ prev.ok
    /\ prev.args = args
    /\ dirState0[args.directory] = "dir"
    /\ files0[OutPath].kind = "table"
    /\ Len(inputFile.rows) >= 1

(* C7: the table a successful call writes is in the directory self.save_path, *)
(* which exists afterwards.                                                  *)
C7_SavePathIsDestination ==
    pc = "done" =>
        /\ dirState[save_path] = "dir"
        /\ files[PathJoin(save_path, args.file)] = ExpectedTable

C9_AtMost512Tokens ==
    /\ encoderTokens <= DocMaxTokens
    /\ embedding # << >> => Len(embedding) = HiddenSize(model_name)

(* C10: the steps of a call are entered in the order read, lookup, one       *)
(* embed per row in row order, column assignment, makedirs, write; an embed  *)
(* starts only when every earlier row's has returned; a step that fails is   *)
(* the last one; and a call that failed in an embed has created no directory *)
(* and written nothing.                                                      *)
C10_StepOrder ==
    /\ IsPrefix(log, Canon(NRows))
    /\ pc = "done" => log = Canon(NRows)
    /\ pc = "apply" => (Len(result) = row - 1 /\ Len(log) = row + 1)
    /\ (pc = "failed" /\ LastOp = "get_embedding") =>
         /\ Len(result) = LastRow - 1
         /\ dirState = dirState0
         /\ files = files0
    /\ (pc = "failed" /\ LastOp \in {"read_csv", "getitem", "makedirs"}) =>
         files = files0

C10_Witness ==
    /\ pc = "failed"
    /\ LastOp = "get_embedding"
    /\ LastRow = 1
    /\ NRows >= 2
    /\ err = "RuntimeError"
    /\ dirState0[args.directory] = "absent"

====
